---- MODULE Spec2Model ----
\* Model of calrissian/report.py: timed reports, the timeline with its span,
\* the event sweep behind max_parallel_*, and the lock-guarded Reporter.
EXTENDS Integers, Sequences, FiniteSets, TLC

VARIABLES
    timeline,   \* a TimelineReport used sequentially: [children, start_time, finish_time]
    proc,       \* per metric, the processor and events of the last sweep (NoProc before)
    ret,        \* the last operation called on the timeline and what it returned or raised
    heap,       \* the TimelineReport objects created so far (Reporter part)
    timeline_report, \* Reporter.timeline_report: position in heap of the shared timeline
    lock,       \* Reporter.lock: Free or the thread that holds it
    pc,         \* where each thread is
    self,       \* per thread, the timeline object its running method is bound to
    snapshot,   \* per thread, what it has read or built and not yet used: the
                \* list of a comprehension, the items or the document of safe_dump
    out,        \* what the last to_yaml() call of write_report produced
    hist,       \* history: replacements, exports and stores done, epoch of each add,
                \* start()/finish() calls made
    value,      \* the quantity string handed to the parser
    parsed      \* what the last parser call on value returned or raised

seqVars == <<timeline, proc, ret>>
repVars == <<heap, timeline_report, lock, pc, self, snapshot, out, hist>>
parseVars == <<value, parsed>>
vars == <<timeline, proc, ret, heap, timeline_report, lock, pc, self, snapshot, out, hist,
          value, parsed>>

-----------------------------------------------------------------------------
\* Bounds and value domains

MaxChildren == 2
MaxTime == 4
MaxProducers == 2
MaxClears == 1
MaxExports == 1
MaxLen == 3
MaxCalls == 1

\* None, as the value of start_time / finish_time that was never set.
\* Instants are 1..MaxTime; None is the only falsy time value.
None == 0
Times == 1 .. MaxTime
OptTimes == {None} \cup Times

\* (cpus, ram_megabytes) pairs the reports are built with
Weights == { [cpus |-> 2, ram_megabytes |-> 1], [cpus |-> 3, ram_megabytes |-> 0] }

Metrics == {"tasks", "cpus", "ram"}

Max2(a, b) == IF a >= b THEN a ELSE b

-----------------------------------------------------------------------------
\* TimedResourceReport(cpus, ram_megabytes, start_time, finish_time)

TimedResourceReport(c, r, s, f) ==
    [start_time |-> s, finish_time |-> f, cpus |-> c, ram_megabytes |-> r]

\* every report whose two times are set, in either order
SetReports == { TimedResourceReport(w.cpus, w.ram_megabytes, s, f) :
                    w \in Weights, s \in Times, f \in Times }
\* the reports with finish_time >= start_time
ValidReports == { r \in SetReports : r.finish_time >= r.start_time }
\* every report, times possibly None
AllReports == { TimedResourceReport(w.cpus, w.ram_megabytes, s, f) :
                    w \in Weights, s \in OptTimes, f \in OptTimes }

-----------------------------------------------------------------------------
\* TimelineReport: construction, add_report, _recalculate_times

TimelineReport == [children |-> <<>>, start_time |-> None, finish_time |-> None]

\* `if c.start_time`: a time is truthy unless it is None
Truthy(t) == t # None

RECURSIVE InsertTime(_, _)
InsertTime(t, s) ==
    IF s = <<>> THEN <<t>>
    ELSE IF t < Head(s) THEN <<t>> \o s
    ELSE <<Head(s)>> \o InsertTime(t, Tail(s))

\* sorted(list) on a list of times
RECURSIVE SortedTimes(_)
SortedTimes(s) ==
    IF s = <<>> THEN <<>>
    ELSE InsertTime(s[Len(s)], SortedTimes(SubSeq(s, 1, Len(s) - 1)))

\* [c.start_time for c in self.children if c.start_time]
RECURSIVE StartTimes(_)
StartTimes(cs) ==
    IF cs = <<>> THEN <<>>
    ELSE (IF Truthy(Head(cs).start_time) THEN <<Head(cs).start_time>> ELSE <<>>)
         \o StartTimes(Tail(cs))

\* [c.finish_time for c in self.children if c.finish_time]
RECURSIVE FinishTimes(_)
FinishTimes(cs) ==
    IF cs = <<>> THEN <<>>
    ELSE (IF Truthy(Head(cs).finish_time) THEN <<Head(cs).finish_time>> ELSE <<>>)
         \o FinishTimes(Tail(cs))

\* a start taken over the children that have both times set
RecalculateStartBothSet(tl) ==
    LET start_times == StartTimes(SelectSeq(tl.children, LAMBDA c : Truthy(c.finish_time)))
    IN  IF start_times # <<>>
        THEN [tl EXCEPT !.start_time = SortedTimes(start_times)[1]]
        ELSE tl

\* if start_times: self.start_time = sorted(start_times)[0]
SetStart(tl, start_times) ==
    IF start_times # <<>>
    THEN [tl EXCEPT !.start_time = SortedTimes(start_times)[1]]
    ELSE tl

\* if finish_times: self.finish_time = sorted(finish_times)[-1]
SetFinish(tl, finish_times) ==
    IF finish_times # <<>>
    THEN [tl EXCEPT !.finish_time = SortedTimes(finish_times)[Len(finish_times)]]
    ELSE tl

RecalculateStart(tl) == SetStart(tl, StartTimes(tl.children))

\* a span whose finish is the earliest finish instead of the latest
RecalculateFinishEarliest(tl) ==
    LET finish_times == FinishTimes(tl.children)
    IN  IF finish_times # <<>>
        THEN [tl EXCEPT !.finish_time = SortedTimes(finish_times)[1]]
        ELSE tl

RecalculateFinish(tl) == SetFinish(tl, FinishTimes(tl.children))

RecalculateTimes(tl) == RecalculateFinish(RecalculateStart(tl))

\* an add that assigns a new one-element list instead of appending
AppendChildOverwriting(tl, report) == [tl EXCEPT !.children = <<report>>]

\* self.children.append(report)
AppendChild(tl, report) == [tl EXCEPT !.children = Append(@, report)]

\* TimelineReport.add_report
AddReportTo(tl, report) == RecalculateTimes(AppendChild(tl, report))

\* the timeline after add_report of each report of rs, in order
RECURSIVE TimelineOf(_)
TimelineOf(rs) ==
    IF rs = <<>> THEN TimelineReport
    ELSE AddReportTo(TimelineOf(SubSeq(rs, 1, Len(rs) - 1)), rs[Len(rs)])

SeqsUpTo(S, n) == UNION { [1 .. k -> S] : k \in 0 .. n }

-----------------------------------------------------------------------------
\* Event, the processors and the sweep of TimelineReport._walk

START == 1
FINISH == -1

\* An event refers to its report by the report's position in children.
Event(time, type, report) == [time |-> time, type |-> type, report |-> report]

start_event(tl, i) == Event(tl.children[i].start_time, START, i)
finish_event(tl, i) == Event(tl.children[i].finish_time, FINISH, i)

\* for report in self.children: append start_event, append finish_event
RECURSIVE EventsUpTo(_, _)
EventsUpTo(tl, n) ==
    IF n = 0 THEN <<>>
    ELSE EventsUpTo(tl, n - 1) \o <<start_event(tl, n), finish_event(tl, n)>>

\* an event list with the START events only
EventsStartOnly(tl) == [i \in 1 .. Len(tl.children) |-> start_event(tl, i)]

Events(tl) == EventsUpTo(tl, Len(tl.children))

\* a sort on the time alone
EventKeyTimeOnly(e) == <<e.time, 0>>

\* key=lambda x: (x.time, x.type,)
EventKey(e) == <<e.time, e.type>>

\* a comparison that looks at the first component only
KeyLessFirstOnly(k1, k2) == k1[1] < k2[1]

\* tuple comparison k1 < k2
KeyLess(k1, k2) == k1[1] < k2[1] \/ (k1[1] = k2[1] /\ k1[2] < k2[2])

RECURSIVE InsertEvent(_, _)
InsertEvent(e, s) ==
    IF s = <<>> THEN <<e>>
    ELSE IF KeyLess(EventKey(e), EventKey(Head(s))) THEN <<e>> \o s
    ELSE <<Head(s)>> \o InsertEvent(e, Tail(s))

\* sorted(events, key=...): stable, equal keys keep their order
RECURSIVE SortedEvents(_)
SortedEvents(s) ==
    IF s = <<>> THEN <<>>
    ELSE InsertEvent(s[Len(s)], SortedEvents(SubSeq(s, 1, Len(s) - 1)))

\* Sorting compares None with an instant when the times are mixed: TypeError.
SortRaises(events) ==
    \E i, j \in 1 .. Len(events) : events[i].time = None /\ events[j].time # None

\* MaxParallelCountProcessor.__init__
NewProcessor == [count |-> 0, max |-> 0]

\* count_unit of the three processor classes
CountUnit(metric, report) ==
    CASE metric = "tasks" -> 1
      [] metric = "cpus" -> report.cpus
      [] metric = "ram" -> report.ram_megabytes

\* a processor that forgets to subtract on FINISH
ProcessNoFinish(p, metric, report, event_type) ==
    LET count == IF event_type = START THEN p.count + CountUnit(metric, report)
                 ELSE p.count
    IN  [count |-> count, max |-> Max2(p.max, count)]

\* a processor whose max is the current count
ProcessMaxIsCount(p, metric, report, event_type) ==
    LET count == IF event_type = START THEN p.count + CountUnit(metric, report)
                 ELSE IF event_type = FINISH THEN p.count - CountUnit(metric, report)
                 ELSE p.count
    IN  [count |-> count, max |-> count]

\* MaxParallelCountProcessor.process
Process(p, metric, report, event_type) ==
    LET count == IF event_type = START THEN p.count + CountUnit(metric, report)
                 ELSE IF event_type = FINISH THEN p.count - CountUnit(metric, report)
                 ELSE p.count
    IN  [count |-> count, max |-> Max2(p.max, count)]

\* the processor after each event of the sorted list, in processing order
RECURSIVE Fold(_, _, _, _)
Fold(tl, metric, events, p) ==
    IF events = <<>> THEN <<>>
    ELSE LET e == Head(events)
             q == Process(p, metric, tl.children[e.report], e.type)
         IN  <<q>> \o Fold(tl, metric, Tail(events), q)

\* a sweep that sorts the children of the timeline in place
WalkSortingChildren(tl, metric) ==
    LET events == Events(tl)
        sorted == SortedEvents(events)
        trace == Fold(tl, metric, sorted, NewProcessor)
        starts == SelectSeq(sorted, LAMBDA e : e.type = START)
    IN  [timeline |-> [tl EXCEPT !.children =
                          [k \in 1 .. Len(starts) |-> tl.children[starts[k].report]]],
         events |-> sorted, trace |-> trace,
         result |-> IF trace = <<>> THEN NewProcessor.max ELSE trace[Len(trace)].max,
         raised |-> "none"]

\* TimelineReport._walk with a fresh processor of the metric's class.
\* The record holds the timeline as the sweep leaves it, the events in the
\* order processed, the processor after each of them, and processor.result().
Walk(tl, metric) ==
    LET events == Events(tl)
    IN  IF SortRaises(events)
        THEN [timeline |-> tl, events |-> <<>>, trace |-> <<>>,
              result |-> None, raised |-> "TypeError"]
        ELSE LET sorted == SortedEvents(events)
                 trace == Fold(tl, metric, sorted, NewProcessor)
             IN  [timeline |-> tl, events |-> sorted, trace |-> trace,
                  result |-> IF trace = <<>> THEN NewProcessor.max
                             ELSE trace[Len(trace)].max,
                  raised |-> "none"]

NoProc == [events |-> <<>>, trace |-> <<>>, result |-> None, raised |-> "never"]

\* ret.value of an operation that returned nothing or raised
NoValue == [num |-> 0, den |-> 0]

NoRet == [op |-> "init", arg |-> 0, value |-> NoValue, raised |-> "none"]

-----------------------------------------------------------------------------
\* ResourceParser.parse and MemoryParser. A string is a sequence of characters.
\* A number is m * 2^e2 * 5^e5 with m divisible by neither 2 nor 5, so that
\* equal numbers are equal records whatever the way they were computed.

Chars == {"1", "2", "5", "G", "M", "K", "i", "a"}
Strings == SeqsUpTo(Chars, MaxLen)

RECURSIVE Number(_, _, _)
Number(m, e2, e5) ==
    IF m % 2 = 0 THEN Number(m \div 2, e2 + 1, e5)
    ELSE IF m % 5 = 0 THEN Number(m \div 5, e2, e5 + 1)
    ELSE [m |-> m, e2 |-> e2, e5 |-> e5]

Times2(x, k) == [x EXCEPT !.e2 = @ + k]
Times10(x, k) == [x EXCEPT !.e2 = @ + k, !.e5 = @ + k]

IsDigit(c) == c \in {"1", "2", "5"}
DigitValue(c) == CASE c = "1" -> 1 [] c = "2" -> 2 [] c = "5" -> 5

\* float(s) on the strings of Chars: decimal digits, at least one
FloatRaises(s) == s = <<>> \/ \E i \in 1 .. Len(s) : ~IsDigit(s[i])

RECURSIVE DecimalValue(_)
DecimalValue(s) ==
    IF s = <<>> THEN 0
    ELSE 10 * DecimalValue(SubSeq(s, 1, Len(s) - 1)) + DigitValue(s[Len(s)])

Float(s) == Number(DecimalValue(s), 0, 0)

\* MemoryParser.suffixes, in the order the dict is iterated;
\* the factor is 10^dec * 2^bin
MemorySuffixes ==
    << [suffix |-> <<"E">>, dec |-> 18, bin |-> 0],
       [suffix |-> <<"P">>, dec |-> 15, bin |-> 0],
       [suffix |-> <<"T">>, dec |-> 12, bin |-> 0],
       [suffix |-> <<"G">>, dec |-> 9, bin |-> 0],
       [suffix |-> <<"M">>, dec |-> 6, bin |-> 0],
       [suffix |-> <<"K">>, dec |-> 3, bin |-> 0],
       [suffix |-> <<"E", "i">>, dec |-> 0, bin |-> 60],
       [suffix |-> <<"P", "i">>, dec |-> 0, bin |-> 50],
       [suffix |-> <<"T", "i">>, dec |-> 0, bin |-> 40],
       [suffix |-> <<"G", "i">>, dec |-> 0, bin |-> 30],
       [suffix |-> <<"M", "i">>, dec |-> 0, bin |-> 20],
       [suffix |-> <<"K", "i">>, dec |-> 0, bin |-> 10] >>

\* str.endswith
EndsWith(s, suffix) ==
    /\ Len(s) >= Len(suffix)
    /\ SubSeq(s, Len(s) - Len(suffix) + 1, Len(s)) = suffix

\* str.replace(suffix, ''): every occurrence, left to right, is removed
RECURSIVE Remove(_, _)
Remove(s, suffix) ==
    IF Len(s) < Len(suffix) THEN s
    ELSE IF SubSeq(s, 1, Len(suffix)) = suffix
         THEN Remove(SubSeq(s, Len(suffix) + 1, Len(s)), suffix)
         ELSE <<Head(s)>> \o Remove(Tail(s), suffix)

ParseError(v, kind) ==
    [number |-> Number(1, 0, 0), raised |-> "ValueError", names |-> <<v, kind>>]
ParseOk(x) == [number |-> x, raised |-> "none", names |-> <<>>]

\* the first suffix of the table that v ends with, 0 if none
FirstSuffix(suffixes, v) ==
    LET hits == { k \in 1 .. Len(suffixes) : EndsWith(v, suffixes[k].suffix) }
    IN  IF hits = {} THEN 0 ELSE CHOOSE k \in hits : \A j \in hits : k <= j

\* ResourceParser.parse
Parse(suffixes, kind, v) ==
    LET k == FirstSuffix(suffixes, v)
    IN  IF k # 0
        THEN LET rest == Remove(v, suffixes[k].suffix)
             IN  IF FloatRaises(rest) THEN ParseError(v, kind)
                 ELSE ParseOk(Times2(Times10(Float(rest), suffixes[k].dec), suffixes[k].bin))
        ELSE IF FloatRaises(v) THEN ParseError(v, kind)
             ELSE ParseOk(Float(v))

\* MemoryParser.parse_to_megabytes: cls.parse(value) / 1024
ParseToMegabytes(v) ==
    LET b == Parse(MemorySuffixes, "memory", v)
    IN  IF b.raised # "none" THEN b ELSE ParseOk(Times2(b.number, -10))

NotParsed == [op |-> "init", number |-> Number(1, 0, 0), raised |-> "none", names |-> <<>>]

ParserIdle ==
    /\ value = <<>>
    /\ parsed = NotParsed

Parsed(op, o) ==
    /\ parsed' = [op |-> op, number |-> o.number, raised |-> o.raised, names |-> o.names]
    /\ UNCHANGED <<value, seqVars, repVars>>

\* MemoryParser.parse(value)
memory_parse == Parsed("parse", Parse(MemorySuffixes, "memory", value))

\* MemoryParser.parse_to_megabytes(value)
parse_to_megabytes == Parsed("parse_to_megabytes", ParseToMegabytes(value))

-----------------------------------------------------------------------------
\* The threads of the Reporter part, and the idle values of each part's variables

Free == <<"free", 0>>
Producer(p) == <<"producer", p>>
Producers == { Producer(p) : p \in 1 .. MaxProducers }
Clearer == <<"clear", 0>>
Writer == <<"write", 0>>
\* a thread that opens its own `with Reporter()` block and calls clear() or
\* get_report() from inside the block or after it
Nester == <<"nested", 0>>
Threads == Producers \cup {Clearer, Writer, Nester}

\* the report producer p adds; obj tells an object from the dict vars() gives
ProducerReport(p) ==
    [id |-> p, obj |-> "report", start_time |-> p, finish_time |-> p + 1,
     cpus |-> 1, ram_megabytes |-> 1]

\* vars(x) of a report: the same fields, as a plain dict
VarsOf(x) == [x EXCEPT !.obj = "dict"]

HasDict(tl) == \E i \in 1 .. Len(tl.children) : tl.children[i].obj = "dict"
HasObject(tl) == \E i \in 1 .. Len(tl.children) : tl.children[i].obj = "report"

NoOut == [written |-> FALSE, doc |-> TimelineReport, raised |-> "none"]

\* what the reporter variables are while no Reporter thread exists
ReporterIdle ==
    /\ heap = <<TimelineReport>>
    /\ timeline_report = 1
    /\ lock = Free
    /\ pc = [t \in Threads |-> "start"]
    /\ self = [t \in Threads |-> 0]
    /\ snapshot = [t \in Threads |-> <<>>]
    /\ out = NoOut
    /\ hist = [epoch |-> 0, exports |-> 0, stores |-> 0,
               addedAt |-> [t \in Producers |-> -1], calls |-> 0]

\* what the sequential variables are while only the Reporter is used
TimelineIdle ==
    /\ timeline = TimelineReport
    /\ proc = [m \in Metrics |-> NoProc]
    /\ ret = NoRet

-----------------------------------------------------------------------------
\* The sweep queries as operations on the sequential timeline

\* max_parallel_tasks / max_parallel_cpus / max_parallel_ram_megabytes
MaxParallel(metric) ==
    LET w == Walk(timeline, metric)
    IN  /\ timeline' = w.timeline
        /\ proc' = [proc EXCEPT ![metric] = [events |-> w.events, trace |-> w.trace,
                                             result |-> w.result, raised |-> w.raised]]
        /\ UNCHANGED <<ret, repVars, parseVars>>

max_parallel_tasks == MaxParallel("tasks")
max_parallel_cpus == MaxParallel("cpus")
max_parallel_ram_megabytes == MaxParallel("ram")

\* A timeline of valid reports, built by add_report, then swept.
InitSweep ==
    /\ \E rs \in SeqsUpTo(ValidReports, MaxChildren) : timeline = TimelineOf(rs)
    /\ proc = [m \in Metrics |-> NoProc]
    /\ ret = NoRet
    /\ ReporterIdle
    /\ ParserIdle

NextSweep ==
    \/ max_parallel_tasks
    \/ max_parallel_cpus
    \/ max_parallel_ram_megabytes

SpecSweep == InitSweep /\ [][NextSweep]_vars

-----------------------------------------------------------------------------
\* Sequential use of one timeline: reports are added one after the other.

\* TimelineReport.add_report
add_report(report) ==
    /\ Len(timeline.children) < MaxChildren
    /\ timeline' = AddReportTo(timeline, report)
    /\ ret' = [op |-> "add_report", arg |-> 0, value |-> NoValue, raised |-> "none"]
    /\ UNCHANGED <<proc, repVars, parseVars>>

InitTimeline ==
    /\ timeline = TimelineReport
    /\ proc = [m \in Metrics |-> NoProc]
    /\ ret = NoRet
    /\ ReporterIdle
    /\ ParserIdle

NextTimeline ==
    \E report \in AllReports : add_report(report)

SpecTimeline == InitTimeline /\ [][NextTimeline]_vars

-----------------------------------------------------------------------------
\* Durations and resource-hours: TimedReport.elapsed_*, TimedResourceReport.*_hours
\* and the timeline's totals. A returned number is the fraction num/den; an
\* outcome is [value, raised].

SECONDS_PER_HOUR == 3600

Returned(n, d) == [value |-> [num |-> n, den |-> d], raised |-> "none"]
Raised(e) == [value |-> NoValue, raised |-> e]

\* a duration that is clamped to zero instead of being refused
ElapsedSecondsClamped(r) ==
    IF r.start_time = None \/ r.finish_time = None THEN Raised("TypeError")
    ELSE LET total_seconds == r.finish_time - r.start_time
         IN  IF total_seconds < 0 THEN Returned(0, 1)
             ELSE Returned(total_seconds, 1)

\* TimedReport.elapsed_seconds; None - instant is a TypeError
ElapsedSeconds(r) ==
    IF r.start_time = None \/ r.finish_time = None THEN Raised("TypeError")
    ELSE LET total_seconds == r.finish_time - r.start_time
         IN  IF total_seconds < 0 THEN Raised("ValueError")
             ELSE Returned(total_seconds, 1)

\* TimedReport.elapsed_hours
ElapsedHours(r) ==
    LET s == ElapsedSeconds(r)
    IN  IF s.raised # "none" THEN s
        ELSE Returned(s.value.num, s.value.den * SECONDS_PER_HOUR)

\* TimedResourceReport.cpu_hours
CpuHours(r) ==
    LET h == ElapsedHours(r)
    IN  IF h.raised # "none" THEN h
        ELSE Returned(r.cpus * h.value.num, h.value.den)

\* TimedResourceReport.ram_megabyte_hours
RamMegabyteHours(r) ==
    LET h == ElapsedHours(r)
    IN  IF h.raised # "none" THEN h
        ELSE Returned(r.ram_megabytes * h.value.num, h.value.den)

AddFractions(a, b) ==
    IF a.den = b.den THEN [num |-> a.num + b.num, den |-> a.den]
    ELSE [num |-> a.num * b.den + b.num * a.den, den |-> a.den * b.den]

\* sum([...]) over outcomes computed in order: the first one that raised
\* propagates, otherwise 0 + v1 + v2 + ...
RECURSIVE SumOutcomes(_, _)
SumOutcomes(outcomes, acc) ==
    IF outcomes = <<>> THEN [value |-> acc, raised |-> "none"]
    ELSE SumOutcomes(Tail(outcomes), AddFractions(acc, Head(outcomes).value))

FirstRaised(outcomes) ==
    LET bad == SelectSeq(outcomes, LAMBDA o : o.raised # "none")
    IN  IF bad = <<>> THEN SumOutcomes(outcomes, [num |-> 0, den |-> 1])
        ELSE Raised(Head(bad).raised)

\* TimelineReport.total_cpu_hours
TotalCpuHours(tl) ==
    FirstRaised([i \in 1 .. Len(tl.children) |-> CpuHours(tl.children[i])])

\* TimelineReport.total_ram_megabyte_hours
TotalRamMegabyteHours(tl) ==
    FirstRaised([i \in 1 .. Len(tl.children) |-> RamMegabyteHours(tl.children[i])])

Returns(op, arg, outcome) ==
    /\ ret' = [op |-> op, arg |-> arg, value |-> outcome.value, raised |-> outcome.raised]
    /\ UNCHANGED <<timeline, proc, repVars, parseVars>>

elapsed_seconds(i) == Returns("elapsed_seconds", i, ElapsedSeconds(timeline.children[i]))
elapsed_hours(i) == Returns("elapsed_hours", i, ElapsedHours(timeline.children[i]))
cpu_hours(i) == Returns("cpu_hours", i, CpuHours(timeline.children[i]))
ram_megabyte_hours(i) ==
    Returns("ram_megabyte_hours", i, RamMegabyteHours(timeline.children[i]))
total_cpu_hours == Returns("total_cpu_hours", 0, TotalCpuHours(timeline))
total_ram_megabyte_hours ==
    Returns("total_ram_megabyte_hours", 0, TotalRamMegabyteHours(timeline))

-----------------------------------------------------------------------------
\* TimedReport.start / finish, which TimedResourceReport and TimelineReport
\* inherit: the times of a child, or of the timeline itself, are set after
\* construction, between add_report calls and duration queries. datetime.now()
\* is some instant, whichever the clock gives.

\* self.start_time = start_time if start_time else datetime.now()
Start(r, start_time, now) ==
    [r EXCEPT !.start_time = IF Truthy(start_time) THEN start_time ELSE now]

\* self.finish_time = finish_time if finish_time else datetime.now()
Finish(r, finish_time, now) ==
    [r EXCEPT !.finish_time = IF Truthy(finish_time) THEN finish_time ELSE now]

\* the instants datetime.now() may give; it is read only without an argument
Now(time) == IF Truthy(time) THEN {time} ELSE Times

\* the reports that are added: built with no times, with a finish_time after
\* the start_time, or with a finish_time before it
FreshReports ==
    { TimedResourceReport(2, 1, None, None), TimedResourceReport(2, 1, 1, 2),
      TimedResourceReport(2, 1, 3, 2) }

TimeSet(op, arg) ==
    /\ hist.calls < MaxCalls
    /\ hist' = [hist EXCEPT !.calls = @ + 1]
    /\ ret' = [op |-> op, arg |-> arg, value |-> NoValue, raised |-> "none"]
    /\ UNCHANGED <<proc, heap, timeline_report, lock, pc, self, snapshot, out, parseVars>>

\* children[i].start(start_time)
child_start(i, start_time, now) ==
    /\ timeline' = [timeline EXCEPT !.children[i] = Start(@, start_time, now)]
    /\ TimeSet("start", i)

\* children[i].finish(finish_time)
child_finish(i, finish_time, now) ==
    /\ timeline' = [timeline EXCEPT !.children[i] = Finish(@, finish_time, now)]
    /\ TimeSet("finish", i)

\* timeline.start(start_time)
timeline_start(start_time, now) ==
    /\ timeline' = Start(timeline, start_time, now)
    /\ TimeSet("start", 0)

\* timeline.finish(finish_time)
timeline_finish(finish_time, now) ==
    /\ timeline' = Finish(timeline, finish_time, now)
    /\ TimeSet("finish", 0)

\* timeline.elapsed_seconds()
timeline_elapsed_seconds == Returns("elapsed_seconds", 0, ElapsedSeconds(timeline))

InitTimes == InitTimeline

NextTimes ==
    \/ \E report \in FreshReports : add_report(report)
    \/ \E i \in 1 .. Len(timeline.children), t \in OptTimes : \E now \in Now(t) :
           child_start(i, t, now)
    \/ \E i \in 1 .. Len(timeline.children), t \in OptTimes : \E now \in Now(t) :
           child_finish(i, t, now)
    \/ \E t \in OptTimes : \E now \in Now(t) : timeline_start(t, now)
    \/ \E t \in OptTimes : \E now \in Now(t) : timeline_finish(t, now)
    \/ \E i \in 1 .. Len(timeline.children) : elapsed_seconds(i)
    \/ \E i \in 1 .. Len(timeline.children) : elapsed_hours(i)
    \/ \E i \in 1 .. Len(timeline.children) : cpu_hours(i)
    \/ \E i \in 1 .. Len(timeline.children) : ram_megabyte_hours(i)
    \/ timeline_elapsed_seconds
    \/ total_cpu_hours
    \/ total_ram_megabyte_hours

SpecTimes == InitTimes /\ [][NextTimes]_vars

-----------------------------------------------------------------------------
\* Properties of the durations (SpecTimes)

\* both times are set
Timed(r) == Truthy(r.start_time) /\ Truthy(r.finish_time)
Inverted(r) == Timed(r) /\ r.finish_time < r.start_time

\* the report a duration was asked of: child ret.arg, or the timeline itself
Asked == IF ret.arg = 0 THEN timeline ELSE timeline.children[ret.arg]

\* C8: on a report with both times set, elapsed_seconds() returns
\* finish_time - start_time, which is >= 0, when finish_time >= start_time and
\* raises when finish_time precedes start_time (never 0, never a negative
\* number); add_report, start() and finish() raise nothing, whatever the
\* times; elapsed_hours, cpu_hours, ram_megabyte_hours raise on the same
\* reports, and the timeline's totals raise when some child is such a report.
C8_NegativeDurationRaises ==
    LET cs == timeline.children
    IN  /\ ret.op = "elapsed_seconds" /\ Timed(Asked) =>
               IF Inverted(Asked)
               THEN ret.raised = "ValueError"
               ELSE /\ ret.raised = "none"
                    /\ ret.value.num = Asked.finish_time - Asked.start_time
                    /\ ret.value.den = 1
                    /\ ret.value.num >= 0
        /\ ret.op = "elapsed_hours" /\ Timed(Asked) =>
               IF Inverted(Asked)
               THEN ret.raised = "ValueError"
               ELSE /\ ret.raised = "none"
                    /\ ret.value.num = Asked.finish_time - Asked.start_time
                    /\ ret.value.den = SECONDS_PER_HOUR
        /\ ret.op \in {"cpu_hours", "ram_megabyte_hours"} /\ Timed(Asked) =>
               IF Inverted(Asked)
               THEN ret.raised = "ValueError"
               ELSE ret.raised = "none" /\ ret.value.num >= 0
        /\ ret.op \in {"total_cpu_hours", "total_ram_megabyte_hours"}
               /\ (\A i \in 1 .. Len(cs) : Timed(cs[i])) =>
               IF \E i \in 1 .. Len(cs) : Inverted(cs[i])
               THEN ret.raised = "ValueError"
               ELSE ret.raised = "none" /\ ret.value.num >= 0
        /\ ret.op \in {"add_report", "start", "finish"} => ret.raised = "none"

\* total_cpu_hours() raised on a timeline whose second child, added with
\* start_time 1 and finish_time 2, was given a start_time after its finish_time
C8_Witness ==
    /\ ret.op = "total_cpu_hours"
    /\ ret.raised = "ValueError"
    /\ hist.calls = 1
    /\ Len(timeline.children) = 2
    /\ Timed(timeline.children[1])
    /\ ~Inverted(timeline.children[1])
    /\ timeline.children[2].start_time = 4
    /\ timeline.children[2].finish_time = 2
    /\ timeline.start_time = 1

-----------------------------------------------------------------------------
\* Properties of the span (SpecTimes)

ChildStarts == { timeline.children[i].start_time : i \in 1 .. Len(timeline.children) } \ {None}
ChildFinishes == { timeline.children[i].finish_time : i \in 1 .. Len(timeline.children) } \ {None}

\* C4: right after add_report the timeline's start_time is the earliest
\* start_time among the children that have one, and its finish_time the latest
\* finish_time among the children that have one, at the values the children
\* have at that moment, whatever start() and finish() set before.
C4_SpanAfterAdd ==
    ret.op = "add_report" =>
        /\ ChildStarts # {} =>
               /\ timeline.start_time \in ChildStarts
               /\ \A t \in ChildStarts : timeline.start_time <= t
        /\ ChildFinishes # {} =>
               /\ timeline.finish_time \in ChildFinishes
               /\ \A t \in ChildFinishes : timeline.finish_time >= t

\* a second report was added after the first child, built with no times, was
\* given finish_time 4 by finish(); only the second child has a start_time,
\* and the finishes differ
C4_Witness ==
    /\ ret.op = "add_report"
    /\ hist.calls = 1
    /\ Len(timeline.children) = 2
    /\ timeline.children[1].start_time = None
    /\ timeline.children[1].finish_time = 4
    /\ timeline.children[2].start_time = 1
    /\ timeline.children[2].finish_time = 2
    /\ timeline.start_time = 1
    /\ timeline.finish_time = 4

-----------------------------------------------------------------------------
\* Properties of the sweep (SpecSweep)

Walked(m) == proc[m].raised = "none"

\* position of child i's START / FINISH event in the order processed
Pos(m, type, i) ==
    CHOOSE k \in 1 .. Len(proc[m].events) :
        proc[m].events[k].type = type /\ proc[m].events[k].report = i

\* child i is in the running total after the k-th processed event
Counted(m, i, k) == Pos(m, START, i) <= k /\ k < Pos(m, FINISH, i)

\* A finishes at the instant B starts, both of positive length
Adjacent(a, b) ==
    /\ a.start_time < a.finish_time
    /\ a.finish_time = b.start_time
    /\ b.start_time < b.finish_time

\* C1: when child A finishes at the instant child B starts (both of positive
\* length), the sweep processes A's FINISH before B's START, A and B are never
\* both in the running total, and a timeline of just A and B has
\* max_parallel_tasks() = 1.
C1_FinishBeforeStart ==
    \A m \in Metrics : Walked(m) =>
        \A a, b \in 1 .. Len(timeline.children) :
            Adjacent(timeline.children[a], timeline.children[b]) =>
                /\ Pos(m, FINISH, a) < Pos(m, START, b)
                /\ \A k \in 1 .. Len(proc[m].events) :
                       ~(Counted(m, a, k) /\ Counted(m, b, k))
                /\ (m = "tasks" /\ Len(timeline.children) = 2) => proc[m].result = 1

\* B = [2,3) was added before A = [1,2) and the task sweep has run
C1_Witness ==
    /\ Walked("tasks")
    /\ Len(timeline.children) = 2
    /\ Adjacent(timeline.children[2], timeline.children[1])
    /\ proc["tasks"].result = 1

\* the weight a child contributes at instant t: its unit while start <= t < finish
RECURSIVE SumActive(_, _, _)
SumActive(cs, metric, t) ==
    IF cs = <<>> THEN 0
    ELSE (IF Head(cs).start_time <= t /\ t < Head(cs).finish_time
          THEN CountUnit(metric, Head(cs)) ELSE 0)
         + SumActive(Tail(cs), metric, t)

\* max(0, max over instants t of the weight active at t)
Reference(tl, metric) ==
    LET S == { SumActive(tl.children, metric, t) : t \in Times } \cup {0}
    IN  CHOOSE x \in S : \A y \in S : x >= y

\* C2: on children with finish >= start and non-negative weights each
\* max_parallel_* query returns the largest total weight of the children active
\* at one instant (start <= t < finish), and 0 when there is none.
C2_MaxParallelIsReference ==
    \A m \in Metrics : Walked(m) => proc[m].result = Reference(timeline, m)

\* two overlapping children with cpus 2 and 3: max_parallel_cpus() = 5
C2_Witness ==
    /\ Walked("cpus")
    /\ Len(timeline.children) = 2
    /\ timeline.children[1] = TimedResourceReport(2, 1, 1, 3)
    /\ timeline.children[2] = TimedResourceReport(3, 0, 2, 4)
    /\ proc["cpus"].result = 5

\* C3: max_parallel_tasks() is 0 on no children and 1 on exactly one child,
\* whatever the child's interval with finish >= start.
C3_OneChildIsOne ==
    Walked("tasks") =>
        /\ Len(timeline.children) = 0 => proc["tasks"].result = 0
        /\ Len(timeline.children) = 1 => proc["tasks"].result = 1

\* C9: a max_parallel_* call leaves the children, their fields and the span of
\* the timeline as they were, and gives again what the same query gave before.
C9_QueriesLeaveTimeline ==
    [][ /\ timeline' = timeline
        /\ \A m \in Metrics : proc[m].raised # "never" =>
               /\ proc'[m].result = proc[m].result
               /\ proc'[m].raised = proc[m].raised ]_vars

\* all three queries have run on a timeline of two overlapping children
C9_Witness ==
    /\ \A m \in Metrics : Walked(m)
    /\ Len(timeline.children) = 2
    /\ proc["tasks"].result = 2
    /\ proc["cpus"].result = 5

-----------------------------------------------------------------------------
\* Reporter: the shared timeline, the lock, and the threads that use them.
\* A producer runs `with Reporter() as r: r.add_report(report)`, the clearing
\* thread runs Reporter.clear(), the writing thread runs write_report(filename).
\* A thread may be preempted between any two of the steps below.

\* Reporter.__enter__: Reporter.lock.acquire() blocks until the lock is free
Enter(t, next) ==
    /\ lock = Free
    /\ lock' = t
    /\ pc' = [pc EXCEPT ![t] = next]

\* an exit that leaves the lock held
ExitKeepingLock(t, next) ==
    /\ lock' = lock
    /\ pc' = [pc EXCEPT ![t] = next]

\* Reporter.__exit__: Reporter.lock.release()
Exit(t, next) ==
    /\ lock' = Free
    /\ pc' = [pc EXCEPT ![t] = next]

\* ---- a producer

producer_enter(t) ==
    /\ pc[t] = "start"
    /\ Enter(t, "add_report")
    /\ UNCHANGED <<heap, timeline_report, self, snapshot, out, hist, seqVars, parseVars>>

\* Reporter.add_report -> TimelineReport.add_report: self.children.append(report)
producer_append(t) ==
    /\ pc[t] = "add_report"
    /\ heap' = [heap EXCEPT ![timeline_report] = AppendChild(@, ProducerReport(t[2]))]
    /\ self' = [self EXCEPT ![t] = timeline_report]
    /\ hist' = [hist EXCEPT !.addedAt[t] = hist.epoch]
    /\ pc' = [pc EXCEPT ![t] = "read_start"]
    /\ UNCHANGED <<timeline_report, lock, snapshot, out, seqVars, parseVars>>

\* _recalculate_times: start_times = [c.start_time for c in self.children if
\* c.start_time]; c.start_time on a dict is an AttributeError
producer_read_start(t) ==
    /\ pc[t] = "read_start"
    /\ IF HasDict(heap[self[t]])
       THEN /\ pc' = [pc EXCEPT ![t] = "exit_raising"]
            /\ UNCHANGED snapshot
       ELSE /\ snapshot' = [snapshot EXCEPT ![t] = StartTimes(heap[self[t]].children)]
            /\ pc' = [pc EXCEPT ![t] = "set_start"]
    /\ UNCHANGED <<heap, timeline_report, lock, self, out, hist, seqVars, parseVars>>

\* _recalculate_times: if start_times: self.start_time = sorted(start_times)[0]
producer_set_start(t) ==
    /\ pc[t] = "set_start"
    /\ heap' = [heap EXCEPT ![self[t]] = SetStart(@, snapshot[t])]
    /\ snapshot' = [snapshot EXCEPT ![t] = <<>>]
    /\ pc' = [pc EXCEPT ![t] = "read_finish"]
    /\ UNCHANGED <<timeline_report, lock, self, out, hist, seqVars, parseVars>>

\* _recalculate_times: finish_times = [c.finish_time for c in self.children if
\* c.finish_time]
producer_read_finish(t) ==
    /\ pc[t] = "read_finish"
    /\ IF HasDict(heap[self[t]])
       THEN /\ pc' = [pc EXCEPT ![t] = "exit_raising"]
            /\ UNCHANGED snapshot
       ELSE /\ snapshot' = [snapshot EXCEPT ![t] = FinishTimes(heap[self[t]].children)]
            /\ pc' = [pc EXCEPT ![t] = "set_finish"]
    /\ UNCHANGED <<heap, timeline_report, lock, self, out, hist, seqVars, parseVars>>

\* _recalculate_times: if finish_times: self.finish_time = sorted(finish_times)[-1]
producer_set_finish(t) ==
    /\ pc[t] = "set_finish"
    /\ heap' = [heap EXCEPT ![self[t]] = SetFinish(@, snapshot[t])]
    /\ snapshot' = [snapshot EXCEPT ![t] = <<>>]
    /\ pc' = [pc EXCEPT ![t] = "exit"]
    /\ UNCHANGED <<timeline_report, lock, self, out, hist, seqVars, parseVars>>

\* leaving the with block, normally or with the exception passing through
producer_exit(t) ==
    /\ pc[t] \in {"exit", "exit_raising"}
    /\ Exit(t, IF pc[t] = "exit" THEN "done" ELSE "raised")
    /\ UNCHANGED <<heap, timeline_report, self, snapshot, out, hist, seqVars, parseVars>>

\* ---- Reporter.clear

\* a clear that keeps the old timeline object
ReplacementKeepsOld(old) == old

\* the object clear() installs: TimelineReport()
Replacement(old) == TimelineReport

clear_enter ==
    /\ pc[Clearer] = "start"
    /\ hist.epoch < MaxClears
    /\ Enter(Clearer, "replace")
    /\ UNCHANGED <<heap, timeline_report, self, snapshot, out, hist, seqVars, parseVars>>

\* Reporter.timeline_report = TimelineReport()
clear_replace ==
    /\ pc[Clearer] = "replace"
    /\ heap' = Append(heap, Replacement(heap[timeline_report]))
    /\ timeline_report' = Len(heap) + 1
    /\ hist' = [hist EXCEPT !.epoch = @ + 1]
    /\ pc' = [pc EXCEPT ![Clearer] = "exit"]
    /\ UNCHANGED <<lock, self, snapshot, out, seqVars, parseVars>>

clear_exit ==
    /\ pc[Clearer] = "exit"
    /\ Exit(Clearer, "start")
    /\ UNCHANGED <<heap, timeline_report, self, snapshot, out, hist, seqVars, parseVars>>

\* ---- write_report: Reporter.get_report().to_yaml()

get_report_enter ==
    /\ pc[Writer] = "start"
    /\ hist.exports < MaxExports
    /\ Enter(Writer, "get_report")
    /\ UNCHANGED <<heap, timeline_report, self, snapshot, out, hist, seqVars, parseVars>>

\* return Reporter.timeline_report (evaluated inside the with block)
get_report_return ==
    /\ pc[Writer] = "get_report"
    /\ self' = [self EXCEPT ![Writer] = timeline_report]
    /\ pc' = [pc EXCEPT ![Writer] = "exit"]
    /\ UNCHANGED <<heap, timeline_report, lock, snapshot, out, hist, seqVars, parseVars>>

get_report_exit ==
    /\ pc[Writer] = "exit"
    /\ Exit(Writer, "to_yaml")
    /\ UNCHANGED <<heap, timeline_report, self, snapshot, out, hist, seqVars, parseVars>>

\* to_yaml: [vars(x) for x in self.children]; vars() of a dict is a TypeError
to_yaml_vars ==
    /\ pc[Writer] = "to_yaml"
    /\ IF HasDict(heap[self[Writer]])
       THEN /\ out' = [written |-> FALSE, doc |-> TimelineReport, raised |-> "TypeError"]
            /\ hist' = [hist EXCEPT !.exports = @ + 1]
            /\ pc' = [pc EXCEPT ![Writer] = "start"]
            /\ UNCHANGED snapshot
       ELSE /\ snapshot' = [snapshot EXCEPT ![Writer] =
                                [i \in 1 .. Len(heap[self[Writer]].children) |->
                                     VarsOf(heap[self[Writer]].children[i])]]
            /\ pc' = [pc EXCEPT ![Writer] = "store"]
            /\ UNCHANGED <<out, hist>>
    /\ UNCHANGED <<heap, timeline_report, lock, self, seqVars, parseVars>>

\* to_yaml: result['children'] = ..., where result is vars(self), the
\* timeline's own attribute dict
to_yaml_store ==
    /\ pc[Writer] = "store"
    /\ heap' = [heap EXCEPT ![self[Writer]].children = snapshot[Writer]]
    /\ hist' = [hist EXCEPT !.stores = @ + 1]
    /\ snapshot' = [snapshot EXCEPT ![Writer] = <<>>]
    /\ pc' = [pc EXCEPT ![Writer] = "dump"]
    /\ UNCHANGED <<timeline_report, lock, self, out, seqVars, parseVars>>

\* to_yaml: yaml.safe_dump(result) begins with list(result.items()), which
\* takes the values of start_time and finish_time as they are then, and the
\* children list itself, not a copy of it
safe_dump_items ==
    /\ pc[Writer] = "dump"
    /\ snapshot' = [snapshot EXCEPT ![Writer] =
                        <<heap[self[Writer]].start_time, heap[self[Writer]].finish_time>>]
    /\ pc' = [pc EXCEPT ![Writer] = "walk"]
    /\ UNCHANGED <<heap, timeline_report, lock, self, out, hist, seqVars, parseVars>>

\* the document safe_dump returns: the children as they are when it walks
\* them, under the times it took before
Document(tl, items) ==
    [children |-> tl.children, start_time |-> items[1], finish_time |-> items[2]]

\* to_yaml: yaml.safe_dump(result) then walks the children; an object among
\* them cannot be represented (RepresenterError), which ends write_report
safe_dump_children ==
    /\ pc[Writer] = "walk"
    /\ IF HasObject(heap[self[Writer]])
       THEN /\ out' = [written |-> FALSE, doc |-> TimelineReport, raised |-> "RepresenterError"]
            /\ hist' = [hist EXCEPT !.exports = @ + 1]
            /\ snapshot' = [snapshot EXCEPT ![Writer] = <<>>]
            /\ pc' = [pc EXCEPT ![Writer] = "start"]
       ELSE /\ snapshot' = [snapshot EXCEPT ![Writer] =
                                <<Document(heap[self[Writer]], snapshot[Writer])>>]
            /\ pc' = [pc EXCEPT ![Writer] = "write"]
            /\ UNCHANGED <<out, hist>>
    /\ UNCHANGED <<heap, timeline_report, lock, self, seqVars, parseVars>>

\* write_report: file.write(...) of the document to_yaml returned
write_report_write ==
    /\ pc[Writer] = "write"
    /\ out' = [written |-> TRUE, doc |-> snapshot[Writer][1], raised |-> "none"]
    /\ hist' = [hist EXCEPT !.exports = @ + 1]
    /\ snapshot' = [snapshot EXCEPT ![Writer] = <<>>]
    /\ pc' = [pc EXCEPT ![Writer] = "start"]
    /\ UNCHANGED <<heap, timeline_report, lock, self, seqVars, parseVars>>

InitReporter == ReporterIdle /\ TimelineIdle /\ ParserIdle

NextReporter ==
    \/ \E t \in Producers : producer_enter(t)
    \/ \E t \in Producers : producer_append(t)
    \/ \E t \in Producers : producer_read_start(t)
    \/ \E t \in Producers : producer_set_start(t)
    \/ \E t \in Producers : producer_read_finish(t)
    \/ \E t \in Producers : producer_set_finish(t)
    \/ \E t \in Producers : producer_exit(t)
    \/ clear_enter
    \/ clear_replace
    \/ clear_exit
    \/ get_report_enter
    \/ get_report_return
    \/ get_report_exit
    \/ to_yaml_vars
    \/ to_yaml_store
    \/ safe_dump_items
    \/ safe_dump_children
    \/ write_report_write

SpecReporter == InitReporter /\ [][NextReporter]_vars

-----------------------------------------------------------------------------
\* Properties of the Reporter (SpecReporter)

Shared == heap[timeline_report]

\* how many children of tl are the report of producer t
Occurrences(tl, t) ==
    Cardinality({ i \in 1 .. Len(tl.children) : tl.children[i].id = t[2] })

\* total_tasks() of the shared timeline
total_tasks == Len(Shared.children)

AllProduced == \A t \in Producers : pc[t] \in {"done", "raised"}

\* C5: once each of the N producers has added its one report inside a
\* `with Reporter()` block, with no clear() and no export rewriting the children
\* meanwhile, the shared timeline has total_tasks() = N and holds each report
\* exactly once, whatever the interleaving.
C5_NoLostAdd ==
    (AllProduced /\ hist.epoch = 0 /\ hist.stores = 0) =>
        /\ total_tasks = MaxProducers
        /\ \A t \in Producers : Occurrences(Shared, t) = 1

\* all producers are done, nothing was cleared or exported, every report is there
C5_Witness ==
    /\ \A t \in Producers : pc[t] = "done"
    /\ hist.epoch = 0
    /\ hist.stores = 0
    /\ total_tasks = MaxProducers
    /\ Shared.start_time = 1
    /\ Shared.finish_time = MaxProducers + 1

\* the writer is past get_report() and inside to_yaml()
InToYaml == pc[Writer] \in {"to_yaml", "store", "dump", "walk"}

\* producer t has appended to tl and its span recomputation is not over
MidAdd(t) == pc[t] \in {"read_start", "set_start", "read_finish", "set_finish"}

\* the span of tl is the one _recalculate_times gives for its children
SpanSettled(tl) == RecalculateTimes(tl) = tl

\* C6: the export of write_report (get_report() then to_yaml()) never runs
\* while an add_report on the same timeline is between its append and the end
\* of its span recomputation, and a document it writes never shows a timeline
\* whose span does not match its children.
C6_ExportNotInterleaved ==
    /\ \A t \in Producers : ~(InToYaml /\ MidAdd(t) /\ self[t] = self[Writer])
    /\ out.written => SpanSettled(out.doc)

\* C7: clear() swaps in a fresh TimelineReport under the lock. An add that has
\* appended and not yet finished is working on the timeline that is still the
\* shared one; the timeline clear() has just installed has no children and no
\* span; a report whose add finished before a clear() is not in the shared
\* timeline afterwards; a report added since the last clear() is in it exactly
\* once (as long as no export has rewritten the children).
C7_ClearReplacesAtomically ==
    /\ \A t \in Producers : MidAdd(t) => self[t] = timeline_report
    /\ \A t \in Producers : ~(pc[Clearer] \in {"replace", "exit"} /\ lock = t)
    /\ pc[Clearer] = "exit" => Shared = TimelineReport
    /\ \A t \in Producers :
          (hist.addedAt[t] >= 0 /\ hist.addedAt[t] < hist.epoch) =>
              Occurrences(Shared, t) = 0
    /\ \A t \in Producers :
          (hist.addedAt[t] = hist.epoch /\ hist.stores = 0) =>
              Occurrences(Shared, t) = 1

\* one report was added before clear() and one after it: only the second is there
C7_Witness ==
    /\ hist.epoch = 1
    /\ pc[Clearer] = "start"
    /\ pc[Producer(1)] = "done"
    /\ pc[Producer(2)] = "done"
    /\ hist.addedAt[Producer(1)] = 0
    /\ hist.addedAt[Producer(2)] = 1
    /\ hist.stores = 0
    /\ Len(Shared.children) = 1
    /\ Shared.children[1].id = 2
    /\ Len(heap[1].children) = 1

-----------------------------------------------------------------------------
\* The parser applied to every string of up to MaxLen characters

InitParse ==
    /\ value \in Strings
    /\ parsed = NotParsed
    /\ TimelineIdle
    /\ ReporterIdle

NextParse ==
    \/ memory_parse
    \/ parse_to_megabytes

SpecParse == InitParse /\ [][NextParse]_vars

\* value is a numeral, or has no digit-only reading and no suffix of the table
BareNumeral == ~FloatRaises(value)
Unparseable == FirstSuffix(MemorySuffixes, value) = 0 /\ FloatRaises(value)

\* C10: parse_to_megabytes gives 2^30/1024 for "1Gi" and 1000 (1e9/1e6) for "1G";
\* parse takes a bare numeral as it stands; a string with no known suffix that
\* is not a numeral raises an error that names the value and the kind.
C10_ParseToMegabytes ==
    /\ (parsed.op = "parse_to_megabytes" /\ value = <<"1", "G", "i">>) =>
           parsed.raised = "none" /\ parsed.number = Number(1, 20, 0)
    /\ (parsed.op = "parse_to_megabytes" /\ value = <<"1", "G">>) =>
           parsed.raised = "none" /\ parsed.number = Number(1000, 0, 0)
    /\ (parsed.op = "parse" /\ BareNumeral) =>
           parsed.raised = "none" /\ parsed.number = Number(DecimalValue(value), 0, 0)
    /\ (parsed.op # "init" /\ Unparseable) =>
           parsed.raised = "ValueError" /\ parsed.names = <<value, "memory">>

-----------------------------------------------------------------------------
\* Export of one timeline used by a single thread: to_yaml() and the operations
\* called after it. The children carry obj, which tells a TimedResourceReport
\* object from the dict vars() gives for it.

ReportObject(r) ==
    [obj |-> "report", start_time |-> r.start_time, finish_time |-> r.finish_time,
     cpus |-> r.cpus, ram_megabytes |-> r.ram_megabytes]

\* the valid reports that start at the first instant, as objects
ExportReports == { ReportObject(r) : r \in { v \in ValidReports : v.start_time = 1 } }

\* TimelineReport.to_yaml: result = vars(self) is the timeline's own attribute
\* dict, so the assignment to result['children'] replaces the timeline's
\* children by the list of dicts; vars() of a dict is a TypeError. The record
\* holds the timeline as the call leaves it and the document it returns.
ToYaml(tl) ==
    IF HasDict(tl)
    THEN [timeline |-> tl, doc |-> TimelineReport, raised |-> "TypeError"]
    ELSE LET stored == [tl EXCEPT !.children = [i \in 1 .. Len(@) |-> VarsOf(@[i])]]
         IN  [timeline |-> stored, doc |-> stored, raised |-> "none"]

\* TimelineReport.add_report on children that may be dicts: the append is
\* done, then c.start_time on a dict is an AttributeError
AddReportAfterExport(tl, report) ==
    LET appended == AppendChild(tl, report)
    IN  IF HasDict(appended)
        THEN [timeline |-> appended, raised |-> "AttributeError"]
        ELSE [timeline |-> RecalculateTimes(appended), raised |-> "none"]

\* child.cpu_hours(), child.ram_megabyte_hours(), report.start_time on a dict:
\* AttributeError at the first child, which is a dict whenever one is
OnChildren(tl, outcome) ==
    IF HasDict(tl) THEN Raised("AttributeError") ELSE outcome

\* TimelineReport.total_tasks
TotalTasks(tl) == Len(tl.children)

MaxParallelOutcome(tl, metric) ==
    LET w == Walk(tl, metric)
    IN  IF w.raised # "none" THEN Raised(w.raised) ELSE Returned(w.result, 1)

Called(op, outcome) ==
    /\ ret' = [op |-> op, arg |-> 0, value |-> outcome.value, raised |-> outcome.raised]
    /\ UNCHANGED <<timeline, proc, out, heap, timeline_report, lock, pc, self, snapshot,
                   hist, parseVars>>

export_to_yaml ==
    LET y == ToYaml(timeline)
    IN  /\ timeline' = y.timeline
        /\ out' = [written |-> y.raised = "none", doc |-> y.doc, raised |-> y.raised]
        /\ ret' = [op |-> "to_yaml", arg |-> 0, value |-> NoValue, raised |-> y.raised]
        /\ UNCHANGED <<proc, heap, timeline_report, lock, pc, self, snapshot, hist,
                       parseVars>>

export_add_report(report) ==
    LET a == AddReportAfterExport(timeline, report)
    IN  /\ Len(timeline.children) < MaxChildren
        /\ timeline' = a.timeline
        /\ ret' = [op |-> "add_report", arg |-> 0, value |-> NoValue, raised |-> a.raised]
        /\ UNCHANGED <<proc, repVars, parseVars>>

export_total_tasks == Called("total_tasks", Returned(TotalTasks(timeline), 1))
export_total_cpu_hours ==
    Called("total_cpu_hours", OnChildren(timeline, TotalCpuHours(timeline)))
export_total_ram_megabyte_hours ==
    Called("total_ram_megabyte_hours", OnChildren(timeline, TotalRamMegabyteHours(timeline)))
export_max_parallel(metric) ==
    Called(metric, OnChildren(timeline, MaxParallelOutcome(timeline, metric)))

InitExport == TimelineIdle /\ ReporterIdle /\ ParserIdle

NextExport ==
    \/ \E report \in ExportReports : export_add_report(report)
    \/ export_to_yaml
    \/ export_total_tasks
    \/ export_total_cpu_hours
    \/ export_total_ram_megabyte_hours
    \/ \E metric \in Metrics : export_max_parallel(metric)

SpecExport == InitExport /\ [][NextExport]_vars

\* C11: to_yaml() leaves the timeline as it was: the children are still the
\* TimedResourceReport objects, and every operation called afterwards
\* (total_tasks, the totals, the max_parallel_* queries, add_report, to_yaml
\* again) succeeds and gives what it gives on the same children without export.
C11_ExportLeavesTimeline ==
    /\ ~HasDict(timeline)
    /\ ret.raised = "none"
    /\ out.raised = "none"
    /\ SpanSettled(timeline)
    /\ ret.op = "total_tasks" => ret.value.num = Len(timeline.children)
    /\ ret.op = "total_cpu_hours" => ret.value = TotalCpuHours(timeline).value
    /\ ret.op = "total_ram_megabyte_hours" => ret.value = TotalRamMegabyteHours(timeline).value
    /\ \A m \in Metrics : ret.op = m => ret.value.num = Walk(timeline, m).result

-----------------------------------------------------------------------------
\* Properties of the sweep (SpecSweep), continued: the processor event by event

\* C12: over children with finish >= start and non-negative weights the
\* running sum is never negative after a processed event, and no child's
\* FINISH is processed before that child's START.
C12_CountNeverNegative ==
    \A m \in Metrics : Walked(m) =>
        /\ \A k \in 1 .. Len(proc[m].trace) : proc[m].trace[k].count >= 0
        /\ \A i \in 1 .. Len(timeline.children) : Pos(m, START, i) < Pos(m, FINISH, i)

Orders(n) ==
    { f \in [1 .. n -> 1 .. n] : \A i, j \in 1 .. n : f[i] = f[j] => i = j }

\* the timeline the same reports give when added in the order f
Reordered(tl, f) == TimelineOf([k \in 1 .. Len(tl.children) |-> tl.children[f[k]]])

\* C13: the max_parallel_* results and total_tasks() are the same for every
\* order in which the same reports are added, ties of instants included.
C13_InsertionOrderIrrelevant ==
    \A f \in Orders(Len(timeline.children)) :
        LET other == Reordered(timeline, f)
        IN  /\ TotalTasks(other) = TotalTasks(timeline)
            /\ \A m \in Metrics : Walked(m) =>
                   LET w == Walk(other, m)
                   IN  w.raised = "none" /\ w.result = proc[m].result

\* two children that start at the same instant, the heavier one added last
C13_Witness ==
    /\ \A m \in Metrics : Walked(m)
    /\ timeline.children = << TimedResourceReport(2, 1, 1, 2), TimedResourceReport(3, 0, 1, 3) >>
    /\ proc["cpus"].result = 5
    /\ Walk(Reordered(timeline, <<2, 1>>), "cpus").events # proc["cpus"].events

\* the processor before the k-th processed event
Before(m, k) == IF k = 1 THEN NewProcessor ELSE proc[m].trace[k - 1]

\* the largest of 0 and the counts after the first k events
LargestCount(m, k) ==
    LET S == { proc[m].trace[j].count : j \in 1 .. k } \cup {0}
    IN  CHOOSE x \in S : \A y \in S : x >= y

\* C14: a processor starts with count = 0 and max = 0; each processed event
\* adds the report's unit to count on START and subtracts it on FINISH; after
\* every event max is the largest count so far (0 included), has not decreased,
\* is >= count and >= 0; the query returns the last max.
C14_ProcessorInvariants ==
    \A m \in Metrics : Walked(m) =>
        LET tr == proc[m].trace
            ev == proc[m].events
        IN  /\ NewProcessor.count = 0 /\ NewProcessor.max = 0
            /\ Len(tr) = Len(ev)
            /\ \A k \in 1 .. Len(tr) :
                   LET unit == CountUnit(m, timeline.children[ev[k].report])
                   IN  /\ ev[k].type = START => tr[k].count = Before(m, k).count + unit
                       /\ ev[k].type = FINISH => tr[k].count = Before(m, k).count - unit
                       /\ tr[k].max = LargestCount(m, k)
                       /\ tr[k].max >= Before(m, k).max
                       /\ tr[k].max >= tr[k].count
                       /\ tr[k].max >= 0
            /\ proc[m].result = IF tr = <<>> THEN 0 ELSE tr[Len(tr)].max

\* a cpu sweep whose count rose to 5 and fell back while max stayed 5
C14_Witness ==
    /\ Walked("cpus")
    /\ Len(proc["cpus"].trace) = 4
    /\ proc["cpus"].trace[2] = [count |-> 5, max |-> 5]
    /\ proc["cpus"].trace[3].count < 5
    /\ proc["cpus"].trace[3].max = 5
    /\ proc["cpus"].result = 5

\* the positions at which the processed events hold child i's event of a type
Positions(m, type, i) ==
    { k \in 1 .. Len(proc[m].events) :
          proc[m].events[k].type = type /\ proc[m].events[k].report = i }

\* C15: a sweep over n children processes exactly 2n events: for each child
\* one START at its start_time and one FINISH at its finish_time, each once;
\* after the last event the running sum is 0 again.
C15_TwoEventsPerChild ==
    \A m \in Metrics : Walked(m) =>
        LET ev == proc[m].events
            n == Len(timeline.children)
        IN  /\ Len(ev) = 2 * n
            /\ Len(proc[m].trace) = 2 * n
            /\ \A i \in 1 .. n :
                   /\ Cardinality(Positions(m, START, i)) = 1
                   /\ Cardinality(Positions(m, FINISH, i)) = 1
                   /\ \A k \in Positions(m, START, i) :
                          ev[k].time = timeline.children[i].start_time
                   /\ \A k \in Positions(m, FINISH, i) :
                          ev[k].time = timeline.children[i].finish_time
            /\ n > 0 => proc[m].trace[2 * n].count = 0

\* a ram sweep over two children: four events, the sum rose and is 0 at the end
C15_Witness ==
    /\ Walked("ram")
    /\ Len(timeline.children) = 2
    /\ Len(proc["ram"].events) = 4
    /\ proc["ram"].result = 2
    /\ proc["ram"].trace[4].count = 0

-----------------------------------------------------------------------------
\* Properties of the span (SpecTimeline): children with one time set

\* the children that have both start_time and finish_time set
BothSet ==
    { i \in 1 .. Len(timeline.children) :
          Truthy(timeline.children[i].start_time) /\ Truthy(timeline.children[i].finish_time) }
BothSetStarts == { timeline.children[i].start_time : i \in BothSet }
BothSetFinishes == { timeline.children[i].finish_time : i \in BothSet }

\* C16 as stated: after add_report the span is taken over the children that
\* have both times set, so a child with only one of them set moves neither
\* start_time nor finish_time of the timeline.
C16_SpanOverBothSet ==
    ret.op = "add_report" =>
        /\ BothSet = {} => timeline.start_time = None /\ timeline.finish_time = None
        /\ BothSet # {} =>
               /\ timeline.start_time \in BothSetStarts
               /\ \A t \in BothSetStarts : timeline.start_time <= t
               /\ timeline.finish_time \in BothSetFinishes
               /\ \A t \in BothSetFinishes : timeline.finish_time >= t

\* C16 as amended: after add_report a child counts for the timeline's
\* start_time as soon as its start_time is set and for the timeline's
\* finish_time as soon as its finish_time is set, whether or not its other
\* time is set; a child with neither set counts for nothing, and what
\* add_report sets is the time of some child: while start() and finish() were
\* never called, a time no child has stays None.
C16_SpanPerField ==
    ret.op = "add_report" =>
        /\ \A i \in 1 .. Len(timeline.children) :
               LET c == timeline.children[i]
               IN  /\ Truthy(c.start_time) =>
                          Truthy(timeline.start_time) /\ timeline.start_time <= c.start_time
                   /\ Truthy(c.finish_time) =>
                          Truthy(timeline.finish_time) /\ timeline.finish_time >= c.finish_time
        /\ ChildStarts # {} => timeline.start_time \in ChildStarts
        /\ ChildFinishes # {} => timeline.finish_time \in ChildFinishes
        /\ ChildStarts = {} /\ hist.calls = 0 => timeline.start_time = None
        /\ ChildFinishes = {} /\ hist.calls = 0 => timeline.finish_time = None

\* a child with only its start_time set, added last, gave the timeline its start
C16_Witness ==
    /\ ret.op = "add_report"
    /\ Len(timeline.children) = 2
    /\ timeline.children[1].start_time = 3
    /\ timeline.children[1].finish_time = 4
    /\ timeline.children[2].start_time = 2
    /\ timeline.children[2].finish_time = None
    /\ timeline.start_time = 2
    /\ timeline.finish_time = 4

-----------------------------------------------------------------------------
\* Reporter, all callers: the producers, the writing thread and the Nester,
\* which runs
\*     with Reporter() as r: <call or no call>
\*     <call, if none was made inside>
\* where the call is Reporter.clear() or Reporter.get_report(). Both open a
\* `with Reporter()` block of their own, so both acquire Reporter.lock, a
\* threading.Lock, which has no owner and is not reentrant.

Calls == {"clear", "get_report"}

\* where the Nester is while its call waits for the lock, and while it runs
WaitingPc == [inside |-> [clear |-> "inside_clear", get_report |-> "inside_get_report"],
              outside |-> [clear |-> "outside_clear", get_report |-> "outside_get_report"]]
RunningPc == [clear |-> "in_clear", get_report |-> "in_get_report"]

nester_enter ==
    /\ pc[Nester] = "start"
    /\ Enter(Nester, "body")
    /\ UNCHANGED <<heap, timeline_report, self, snapshot, out, hist, seqVars, parseVars>>

\* the call is made inside the block: the thread holds the lock and goes on to
\* Reporter.__enter__ of the call
nester_call_inside(call) ==
    /\ pc[Nester] = "body"
    /\ pc' = [pc EXCEPT ![Nester] = WaitingPc.inside[call]]
    /\ UNCHANGED <<heap, timeline_report, lock, self, snapshot, out, hist, seqVars, parseVars>>

\* the block is left without a call
nester_exit ==
    /\ pc[Nester] = "body"
    /\ Exit(Nester, "left")
    /\ UNCHANGED <<heap, timeline_report, self, snapshot, out, hist, seqVars, parseVars>>

\* the call is made after the block
nester_call_outside(call) ==
    /\ pc[Nester] = "left"
    /\ pc' = [pc EXCEPT ![Nester] = WaitingPc.outside[call]]
    /\ UNCHANGED <<heap, timeline_report, lock, self, snapshot, out, hist, seqVars, parseVars>>

\* Reporter.__enter__ of clear() / get_report(): blocks until the lock is free,
\* whoever holds it
nester_acquire ==
    /\ \E call \in Calls :
           /\ pc[Nester] \in {WaitingPc.inside[call], WaitingPc.outside[call]}
           /\ Enter(Nester, RunningPc[call])
    /\ UNCHANGED <<heap, timeline_report, self, snapshot, out, hist, seqVars, parseVars>>

\* Reporter.timeline_report = TimelineReport()
nester_replace ==
    /\ pc[Nester] = RunningPc.clear
    /\ heap' = Append(heap, Replacement(heap[timeline_report]))
    /\ timeline_report' = Len(heap) + 1
    /\ hist' = [hist EXCEPT !.epoch = @ + 1]
    /\ pc' = [pc EXCEPT ![Nester] = "return"]
    /\ UNCHANGED <<lock, self, snapshot, out, seqVars, parseVars>>

\* return Reporter.timeline_report
nester_get_report ==
    /\ pc[Nester] = RunningPc.get_report
    /\ self' = [self EXCEPT ![Nester] = timeline_report]
    /\ pc' = [pc EXCEPT ![Nester] = "return"]
    /\ UNCHANGED <<heap, timeline_report, lock, snapshot, out, hist, seqVars, parseVars>>

\* Reporter.__exit__ of the call
nester_return ==
    /\ pc[Nester] = "return"
    /\ Exit(Nester, "done")
    /\ UNCHANGED <<heap, timeline_report, self, snapshot, out, hist, seqVars, parseVars>>

ProducerNext(t) ==
    \/ producer_enter(t)
    \/ producer_append(t)
    \/ producer_read_start(t)
    \/ producer_set_start(t)
    \/ producer_read_finish(t)
    \/ producer_set_finish(t)
    \/ producer_exit(t)

WriterNext ==
    \/ get_report_enter
    \/ get_report_return
    \/ get_report_exit
    \/ to_yaml_vars
    \/ to_yaml_store
    \/ safe_dump_items
    \/ safe_dump_children
    \/ write_report_write

NesterNext ==
    \/ nester_enter
    \/ \E call \in Calls : nester_call_inside(call)
    \/ nester_exit
    \/ \E call \in Calls : nester_call_outside(call)
    \/ nester_acquire
    \/ nester_replace
    \/ nester_get_report
    \/ nester_return

NextCallers ==
    \/ \E t \in Producers : producer_enter(t)
    \/ \E t \in Producers : producer_append(t)
    \/ \E t \in Producers : producer_read_start(t)
    \/ \E t \in Producers : producer_set_start(t)
    \/ \E t \in Producers : producer_read_finish(t)
    \/ \E t \in Producers : producer_set_finish(t)
    \/ \E t \in Producers : producer_exit(t)
    \/ get_report_enter
    \/ get_report_return
    \/ get_report_exit
    \/ to_yaml_vars
    \/ to_yaml_store
    \/ safe_dump_items
    \/ safe_dump_children
    \/ write_report_write
    \/ nester_enter
    \/ \E call \in Calls : nester_call_inside(call)
    \/ nester_exit
    \/ \E call \in Calls : nester_call_outside(call)
    \/ nester_acquire
    \/ nester_replace
    \/ nester_get_report
    \/ nester_return

\* Every thread that can take a step is scheduled eventually.
FairCallers ==
    /\ \A t \in Producers : WF_vars(ProducerNext(t))
    /\ WF_vars(WriterNext)
    /\ WF_vars(NesterNext)

SpecCallers == InitReporter /\ [][NextCallers]_vars /\ FairCallers

-----------------------------------------------------------------------------
\* Properties of the lock (SpecCallers)

\* where a thread is while it is inside a `with Reporter()` block
BlockPcs(t) ==
    IF t \in Producers
    THEN {"add_report", "read_start", "set_start", "read_finish", "set_finish", "exit",
          "exit_raising"}
    ELSE IF t = Clearer THEN {"replace", "exit"}
    ELSE IF t = Writer THEN {"get_report", "exit"}
    ELSE {"body", WaitingPc.inside.clear, WaitingPc.inside.get_report,
          RunningPc.clear, RunningPc.get_report, "return"}

Inside(t) == pc[t] \in BlockPcs(t)

\* the lock is held by exactly the thread that is inside a block
LockFollowsBlocks == \A t \in Threads : Inside(t) <=> lock = t

\* the Nester has left its block and its call waits for the lock
NesterWaitsOutside == pc[Nester] \in {WaitingPc.outside.clear, WaitingPc.outside.get_report}
\* the Nester's call waits for the lock, inside its block or after it
NesterWaits ==
    pc[Nester] \in {WaitingPc.inside.clear, WaitingPc.inside.get_report,
                    WaitingPc.outside.clear, WaitingPc.outside.get_report}

\* C17: the lock is held exactly while a thread is inside a `with Reporter()`
\* block: it is free when no thread is inside one, also after a block was left
\* by an exception, and no two threads are inside at once; a thread waiting to
\* enter does enter, unless the lock is never given up again.
C17_LockReleasedOnExit ==
    /\ []LockFollowsBlocks
    /\ \A t \in Producers : (pc[t] = "start") ~> (Inside(t) \/ [](lock # Free))
    /\ NesterWaitsOutside ~> (pc[Nester] \in {RunningPc.clear, RunningPc.get_report}
                              \/ [](lock # Free))

\* producer 1's add raised inside its block, and producer 2 has entered since
C17_Witness ==
    /\ pc[Producer(1)] = "raised"
    /\ pc[Producer(2)] = "add_report"
    /\ lock = Producer(2)

\* C18: every call returns: each producer's block is left, each clear() and
\* get_report() that was begun comes back, whether it was called from inside
\* the caller's own `with Reporter()` block or not.
C18_EveryCallReturns ==
    /\ \A t \in Producers : (pc[t] = "start") ~> (pc[t] \in {"done", "raised"})
    /\ (pc[Writer] = "get_report") ~> (pc[Writer] = "to_yaml")
    /\ NesterWaits ~> (pc[Nester] = "done")

====
